---- MODULE Spec2Model ----
(***************************************************************************)
(* Model of src/utils/clean_data.py: the batch cleaner of the bicycle      *)
(* accident table.  A CSV cell is a sequence of one-character strings; a   *)
(* DataFrame cell is a record [k, neg, w, fr, s] whose kind k is           *)
(*   "nan"   missing (NaN / NaT)                                           *)
(*   "int"   an int64 value, sign neg and magnitude w                      *)
(*   "float" a float64 value, sign neg, whole part w, fraction digits fr   *)
(*   "str"   a Python string s (a cell of an object column)                *)
(*   "ts"    a timestamp, s its ISO text                                   *)
(* The file system is the raw file, the output directory and the output    *)
(* file; a run of clean_data() is a sequence of steps driven by pc.        *)
(***************************************************************************)
EXTENDS Integers, Sequences, FiniteSets, TLC

\* ------------------------------------------------------------------ bounds
MaxRows == 2
MaxRuns == 2

\* ------------------------------------------------------------ characters
Digits == {"0", "1", "2", "3", "4", "5", "6", "7", "8", "9"}

DigitVal(c) ==
    CASE c = "0" -> 0 [] c = "1" -> 1 [] c = "2" -> 2 [] c = "3" -> 3
      [] c = "4" -> 4 [] c = "5" -> 5 [] c = "6" -> 6 [] c = "7" -> 7
      [] c = "8" -> 8 [] c = "9" -> 9

DigitChar(d) ==
    CASE d = 0 -> "0" [] d = 1 -> "1" [] d = 2 -> "2" [] d = 3 -> "3"
      [] d = 4 -> "4" [] d = 5 -> "5" [] d = 6 -> "6" [] d = 7 -> "7"
      [] d = 8 -> "8" [] d = 9 -> "9"

AllDigits(s) == Len(s) > 0 /\ \A i \in 1..Len(s) : s[i] \in Digits

RECURSIVE NatVal(_)
NatVal(s) ==
    IF s = <<>> THEN 0
    ELSE NatVal(SubSeq(s, 1, Len(s) - 1)) * 10 + DigitVal(s[Len(s)])

RECURSIVE NatStr(_)
NatStr(n) ==
    IF n < 10 THEN <<DigitChar(n)>>
    ELSE Append(NatStr(n \div 10), DigitChar(n % 10))

RECURSIVE StripZeros(_)
StripZeros(s) ==
    IF s # <<>> /\ s[Len(s)] = "0" THEN StripZeros(SubSeq(s, 1, Len(s) - 1))
    ELSE s

IndexOf(s, c) ==
    IF \E i \in 1..Len(s) : s[i] = c
    THEN CHOOSE i \in 1..Len(s) : s[i] = c /\ \A j \in 1..(i - 1) : s[j] # c
    ELSE 0

Range(s) == {s[i] : i \in 1..Len(s)}

\* the elements of s from position i on whose flag in keep is set, in order
RECURSIVE SelectIdx(_, _, _)
SelectIdx(s, keep, i) ==
    IF i > Len(s) THEN <<>>
    ELSE IF keep[i] THEN <<s[i]>> \o SelectIdx(s, keep, i + 1)
         ELSE SelectIdx(s, keep, i + 1)

Without(s, c) == SelectIdx(s, [i \in 1..Len(s) |-> s[i] # c], 1)

\* ------------------------------------------------------- DataFrame cells
NaN == [k |-> "nan", neg |-> FALSE, w |-> 0, fr |-> <<>>, s |-> <<>>]
IntCell(neg, w) == [k |-> "int", neg |-> neg /\ w # 0, w |-> w, fr |-> <<>>, s |-> <<>>]
FloatCell(neg, w, fr) == [k |-> "float", neg |-> neg, w |-> w, fr |-> fr, s |-> <<>>]
StrCell(s) == [k |-> "str", neg |-> FALSE, w |-> 0, fr |-> <<>>, s |-> s]
TsCell(s) == [k |-> "ts", neg |-> FALSE, w |-> 0, fr |-> <<>>, s |-> s]

IsNa(c) == c.k = "nan"

\* ------------------------------------------------------ numeric literals
\* [-]digits[.digits], the literals of the modelled tables
Unsigned(s) == IF s # <<>> /\ s[1] = "-" THEN SubSeq(s, 2, Len(s)) ELSE s

IsIntLit(s) == AllDigits(Unsigned(s))

IsNumLit(s) ==
    LET u == Unsigned(s)
        p == IndexOf(u, ".")
    IN  IF p = 0 THEN AllDigits(u)
        ELSE AllDigits(SubSeq(u, 1, p - 1)) /\ AllDigits(SubSeq(u, p + 1, Len(u)))

ParseInt(s) == IntCell(s[1] = "-", NatVal(Unsigned(s)))

ParseFloat(s) ==
    LET u == Unsigned(s)
        p == IndexOf(u, ".")
    IN  IF p = 0 THEN FloatCell(s[1] = "-", NatVal(u), <<>>)
        ELSE FloatCell(s[1] = "-", NatVal(SubSeq(u, 1, p - 1)),
                       StripZeros(SubSeq(u, p + 1, Len(u))))

\* --------------------------------------------------------- configuration
COLUMNS_TO_KEEP ==
    <<"Num_Acc", "date", "lat", "long", "age", "grav", "sexe", "atm", "lum",
      "dep", "hrmn">>

\* ------------------------------------------------------------ DataFrames
\* a table is [cols |-> sequence of column names, rows |-> sequence of rows],
\* a row a function from the column names to cells
Column(t, c) == [i \in 1..Len(t.rows) |-> t.rows[i][c]]

SetColumn(t, c, vals) ==
    [cols |-> IF c \in Range(t.cols) THEN t.cols ELSE Append(t.cols, c),
     rows |-> [i \in 1..Len(t.rows) |->
                 [d \in Range(t.cols) \cup {c} |->
                     IF d = c THEN vals[i] ELSE t.rows[i][d]]]]

DropColumn(t, c) ==
    LET kept == Without(t.cols, c)
    IN  [cols |-> kept,
         rows |-> [i \in 1..Len(t.rows) |-> [d \in Range(kept) |-> t.rows[i][d]]]]

FilterRows(t, keep) == [cols |-> t.cols, rows |-> SelectIdx(t.rows, keep, 1)]

\* ------------------------------------------------------------ pd.read_csv
\* type inference of one column: an empty field is NaN; a column whose fields
\* are all numeric literals is int64 (no NaN, all integers) or float64; any
\* other column is object and keeps its fields as the strings of the file
ReadColumn(vals) ==
    LET n == Len(vals)
        present == {i \in 1..n : vals[i] # <<>>}
        numeric == \A i \in present : IsNumLit(vals[i])
        integral == present = 1..n /\ \A i \in 1..n : IsIntLit(vals[i])
    IN  [i \in 1..n |->
            IF vals[i] = <<>> THEN NaN
            ELSE IF ~numeric THEN StrCell(vals[i])
            ELSE IF integral THEN ParseInt(vals[i])
            ELSE ParseFloat(vals[i])]

ReadCsv(t) ==
    [cols |-> t.cols,
     rows |-> [i \in 1..Len(t.rows) |->
                 [c \in Range(t.cols) |-> ReadColumn(Column(t, c))[i]]]]

\* ---------------------------------------------------------- pd.to_numeric
\* errors='coerce': a numeric cell is kept, a string is parsed or becomes NaN;
\* the parsed column is int64 only when every cell is an integer literal
ToNumeric(vals) ==
    LET allInt == \A i \in 1..Len(vals) :
                     vals[i].k = "int" \/ (vals[i].k = "str" /\ IsIntLit(vals[i].s))
    IN  [i \in 1..Len(vals) |->
            IF vals[i].k = "str"
            THEN IF ~IsNumLit(vals[i].s) THEN NaN
                 ELSE IF allInt THEN ParseInt(vals[i].s) ELSE ParseFloat(vals[i].s)
            ELSE vals[i]]

\* --------------------------------------------------------- pd.to_datetime
IsLeap(y) == (y % 4 = 0 /\ y % 100 # 0) \/ y % 400 = 0

DaysIn(y, m) ==
    IF m = 2 THEN (IF IsLeap(y) THEN 29 ELSE 28)
    ELSE IF m \in {4, 6, 9, 11} THEN 30 ELSE 31

\* the dates of the modelled tables are written YYYY-MM-DD
IsIsoDate(s) ==
    /\ Len(s) = 10
    /\ s[5] = "-" /\ s[8] = "-"
    /\ AllDigits(SubSeq(s, 1, 4)) /\ AllDigits(SubSeq(s, 6, 7)) /\ AllDigits(SubSeq(s, 9, 10))
    /\ LET y == NatVal(SubSeq(s, 1, 4))
           m == NatVal(SubSeq(s, 6, 7))
           d == NatVal(SubSeq(s, 9, 10))
       IN  y >= 1 /\ m \in 1..12 /\ d \in 1..DaysIn(y, m)

\* errors='coerce', no format: a string that is no date becomes NaT; a number
\* is read as nanoseconds since the epoch
ToDatetime(vals) ==
    [i \in 1..Len(vals) |->
        CASE vals[i].k = "str" ->
                 IF IsIsoDate(vals[i].s) THEN TsCell(vals[i].s) ELSE NaN
          [] vals[i].k \in {"int", "float"} ->
                 TsCell(<<"e", "p", "o", "c", "h", "+">> \o NatStr(vals[i].w))
          [] OTHER -> vals[i]]

\* format='%H:%M': one or two digits of hour (0..23), ':', one or two digits
\* of minute (0..59), and nothing else
IsHourMinute(s) ==
    LET p == IndexOf(s, ":")
        h == SubSeq(s, 1, p - 1)
        m == SubSeq(s, p + 1, Len(s))
    IN  /\ p > 0
        /\ AllDigits(h) /\ Len(h) <= 2 /\ NatVal(h) <= 23
        /\ AllDigits(m) /\ Len(m) <= 2 /\ NatVal(m) <= 59

HourOf(s) == NatVal(SubSeq(s, 1, IndexOf(s, ":") - 1))

\* pd.to_datetime(hrmn, format='%H:%M', errors='coerce').dt.hour: the hour of
\* every cell that matches, NaN for the others; an integer column only when
\* no cell is NaT
HourColumn(vals) ==
    LET Matches(c) == c.k = "str" /\ IsHourMinute(c.s)
        allOk == \A i \in 1..Len(vals) : Matches(vals[i])
    IN  [i \in 1..Len(vals) |->
            IF ~Matches(vals[i]) THEN NaN
            ELSE IF allOk THEN IntCell(FALSE, HourOf(vals[i].s))
            ELSE FloatCell(FALSE, HourOf(vals[i].s), <<>>)]

\* ------------------------------------------------------------------ steps
\* line 54: df[COLUMNS_TO_KEEP] raises KeyError unless every column is there
HasColumns(t) == Range(COLUMNS_TO_KEEP) \subseteq Range(t.cols)

\* mutant: the selection of line 54 left out
ProjectNothing(t) == t

Project(t) ==
    [cols |-> COLUMNS_TO_KEEP,
     rows |-> [i \in 1..Len(t.rows) |->
                 [c \in Range(COLUMNS_TO_KEEP) |-> t.rows[i][c]]]]

\* line 61
CoerceDate(t) == SetColumn(t, "date", ToDatetime(Column(t, "date")))

\* lines 65-66
CoerceCoords(t) ==
    LET u == SetColumn(t, "lat", ToNumeric(Column(t, "lat")))
    IN  SetColumn(u, "long", ToNumeric(Column(u, "long")))

\* lines 68-69
DeriveHour(t) ==
    DropColumn(SetColumn(t, "hour", HourColumn(Column(t, "hrmn"))), "hrmn")

\* lines 61-69
Coerce(t) == DeriveHour(CoerceCoords(CoerceDate(t)))

\* mutant: 'date' left out of the subset of line 76
DropnaSubsetWithoutDate == {"lat", "long", "age", "hour"}

\* line 76
DropnaSubset == {"date", "lat", "long", "age", "hour"}

\* mutant: dropna(how='all'), which drops a row only when every field of the
\* subset is missing
CompleteHowAll(r) == \E c \in DropnaSubset : ~IsNa(r[c])

Complete(r) == \A c \in DropnaSubset : ~IsNa(r[c])

DropIncomplete(t) == FilterRows(t, [i \in 1..Len(t.rows) |-> Complete(t.rows[i])])

\* line 79: lat != 0 (NaN != 0 is true)
IsZero(c) == c.k \in {"int", "float"} /\ c.w = 0 /\ c.fr = <<>>

\* mutant: only the coordinates (0, 0) are dropped
NotSentinelOrigin(r) == ~(IsZero(r["lat"]) /\ IsZero(r["long"]))

NotSentinel(r) == ~IsZero(r["lat"])

DropSentinel(t) == FilterRows(t, [i \in 1..Len(t.rows) |-> NotSentinel(t.rows[i])])

\* lines 86-87: astype(int).  int64 is kept; float64 is truncated toward zero
\* (NaN raises); an object column is converted cell by cell with int(), which
\* raises ValueError on a string that is no integer literal
CanCastInt(c) ==
    \/ c.k \in {"int", "float"}
    \/ c.k = "str" /\ IsIntLit(c.s)

\* mutant: the column is left as it is
CastIntKeeps(c) == c

CastInt(c) == IF c.k = "str" THEN ParseInt(c.s) ELSE IntCell(c.neg, c.w)

CastColumn(t, c) == SetColumn(t, c, [i \in 1..Len(t.rows) |-> CastInt(t.rows[i][c])])

CastRaises(t, c) == \E i \in 1..Len(t.rows) : ~CanCastInt(t.rows[i][c])

FinalizeTypes(t) == CastColumn(CastColumn(t, "age"), "hour")

FinalizeRaises(t) == CastRaises(t, "age") \/ CastRaises(t, "hour")

\* line 95: to_csv(index=False): a header and one text field per cell
Sign(c) == IF c.neg THEN <<"-">> ELSE <<>>

FormatCell(c) ==
    CASE c.k = "nan" -> <<>>
      [] c.k = "int" -> Sign(c) \o NatStr(c.w)
      [] c.k = "float" ->
             Sign(c) \o NatStr(c.w) \o <<".">> \o (IF c.fr = <<>> THEN <<"0">> ELSE c.fr)
      [] OTHER -> c.s

ToCsv(t) ==
    [cols |-> t.cols,
     rows |-> [i \in 1..Len(t.rows) |->
                 [c \in Range(t.cols) |-> FormatCell(t.rows[i][c])]]]

\* ----------------------------------------------------------- input tables
\* one well-formed record of the raw file; "com" is a column of the raw file
\* that the cleaner does not keep
ValidRow ==
    [Num_Acc |-> <<"0">>,
     date |-> <<"2", "0", "2", "1", "-", "0", "5", "-", "0", "1">>,
     lat |-> <<"4", "8", ".", "8", "5">>,
     long |-> <<"2", ".", "3", "5">>,
     age |-> <<"3", "4">>,
     grav |-> <<"3">>,
     sexe |-> <<"1">>,
     atm |-> <<"1">>,
     lum |-> <<"1">>,
     dep |-> <<"7", "5">>,
     hrmn |-> <<"1", "4", ":", "3", "0">>,
     com |-> <<"x">>]

Variants ==
    {[col |-> "date", val |-> <<>>],
     [col |-> "date", val |-> <<"2", "0", "2", "1", "-", "0", "2", "-", "3", "0">>],
     [col |-> "lat", val |-> <<>>],
     [col |-> "lat", val |-> <<"0">>],
     [col |-> "long", val |-> <<"0">>],
     [col |-> "long", val |-> <<"a", "b", "c">>],
     [col |-> "age", val |-> <<>>],
     [col |-> "age", val |-> <<"a", "b", "c">>],
     [col |-> "age", val |-> <<"3", "4", ".", "5">>],
     [col |-> "age", val |-> <<"-", "1">>],
     [col |-> "hrmn", val |-> <<"2", "4", ":", "0", "0">>],
     [col |-> "hrmn", val |-> <<"7", ":", "0", "5">>],
     [col |-> "dep", val |-> <<"0", "1">>]}

\* rows with one field changed, and a row with a zero latitude whose age is
\* no number
RowKinds ==
    {ValidRow}
      \cup {[ValidRow EXCEPT ![v.col] = v.val] : v \in Variants}
      \cup {[ValidRow EXCEPT !.lat = <<"0">>, !.age = <<"a", "b", "c">>]}

\* the header of the raw file: the kept columns, with or without another
\* column, or with one of the kept columns absent
Headers ==
    {COLUMNS_TO_KEEP, <<"com">> \o COLUMNS_TO_KEEP}
      \cup {Without(COLUMNS_TO_KEEP, c) : c \in {"hrmn", "lat"}}

\* row i of a table has Num_Acc = i
MakeTable(h, kinds) ==
    [cols |-> h,
     rows |-> [i \in 1..Len(kinds) |->
                 [c \in Range(h) |-> IF c = "Num_Acc" THEN NatStr(i) ELSE kinds[i][c]]]]

Tables ==
    {MakeTable(h, kinds) :
        h \in Headers, kinds \in UNION {[1..n -> RowKinds] : n \in 0..MaxRows}}

NoTable == [cols |-> <<>>, rows |-> <<>>]

\* RAW_DATA_PATH: no file, a file pd.read_csv cannot parse, or a table
RawFiles ==
    {[kind |-> "absent", table |-> NoTable], [kind |-> "garbage", table |-> NoTable]}
      \cup {[kind |-> "table", table |-> t] : t \in Tables}

\* ------------------------------------------------------------------ state
VARIABLES
    raw,           \* the file at RAW_DATA_PATH
    outDir,        \* whether the directory of CLEANED_DATA_PATH exists
    outFile,       \* the file at CLEANED_DATA_PATH: [exists, data]
    pc,            \* where the running clean_data() is; "exited" when the run
                   \* has just ended, "idle" once the environment has acted
    df,            \* df, then df_cleaned
    initial_rows,  \* line 75
    stdout,        \* the messages printed by the run
    status,        \* how the last run ended: "returned" or "raised"
    runs,          \* the runs started
    trace,         \* df_cleaned as it was after lines 54, 69, 76 and 79
    cur,           \* the run in progress or just ended: its input, the output
                   \* path before it, and what it wrote
    prev           \* the same for the run before it

vars ==
    <<raw, outDir, outFile, pc, df, initial_rows, stdout, status, runs, trace,
      cur, prev>>

NoFile == [exists |-> FALSE, data |-> NoTable]

NoTrace ==
    [projected |-> NoTable, coerced |-> NoTable, complete |-> NoTable,
     filtered |-> NoTable]

NoRun ==
    [input |-> [kind |-> "absent", table |-> NoTable], dir0 |-> FALSE,
     file0 |-> NoFile, wrote |-> FALSE, out |-> NoTable]

Msg(m, n) == [msg |-> m, n |-> n]

Init ==
    /\ raw \in RawFiles
    /\ outDir = FALSE
    /\ outFile = NoFile
    /\ pc = "idle"
    /\ df = NoTable
    /\ initial_rows = 0
    /\ stdout = <<>>
    /\ status = "none"
    /\ runs = 0
    /\ trace = NoTrace
    /\ cur = NoRun
    /\ prev = NoRun

\* lines 100-102 and 37: the script is started
Quiet == pc \in {"idle", "exited"}

Start ==
    /\ Quiet
    /\ runs < MaxRuns
    /\ pc' = "load"
    /\ runs' = runs + 1
    /\ status' = "running"
    /\ stdout' = <<Msg("Debut du nettoyage", 0)>>
    /\ df' = NoTable
    /\ initial_rows' = 0
    /\ trace' = NoTrace
    /\ prev' = cur
    /\ cur' = [input |-> raw, dir0 |-> outDir, file0 |-> outFile, wrote |-> FALSE,
               out |-> NoTable]
    /\ UNCHANGED <<raw, outDir, outFile>>

\* how a run ends: clean_data returns (the script ends normally) or an
\* exception leaves it (the interpreter prints a traceback and exits with 1)
Returns == pc' = "exited" /\ status' = "returned"

Raises == pc' = "exited" /\ status' = "raised"

\* mutant: the output directory is made before the raw file is read
LoadMakesDirectory ==
    /\ pc = "load"
    /\ outDir' = TRUE
    /\ IF raw.kind = "absent"
       THEN /\ stdout' = stdout \o <<Msg("ERREUR: Fichier non trouve", 0),
                                     Msg("Veuillez d'abord placer", 0)>>
            /\ Returns
            /\ df' = df
       ELSE IF raw.kind = "garbage"
       THEN /\ stdout' = Append(stdout, Msg("Une erreur est survenue", 0))
            /\ Returns
            /\ df' = df
       ELSE /\ df' = ReadCsv(raw.table)
            /\ pc' = "project"
            /\ UNCHANGED <<stdout, status>>
    /\ UNCHANGED <<raw, outFile, initial_rows, runs, trace, cur, prev>>

\* mutant: pd.read_csv outside any try, so that its exception leaves the run
LoadUnguarded ==
    /\ pc = "load"
    /\ IF raw.kind # "table"
       THEN /\ Raises
            /\ UNCHANGED <<stdout, df>>
       ELSE /\ df' = ReadCsv(raw.table)
            /\ pc' = "project"
            /\ UNCHANGED <<stdout, status>>
    /\ UNCHANGED <<raw, outDir, outFile, initial_rows, runs, trace, cur, prev>>

\* lines 42-50
Load ==
    /\ pc = "load"
    /\ IF raw.kind = "absent"
       THEN /\ stdout' = stdout \o <<Msg("ERREUR: Fichier non trouve", 0),
                                     Msg("Veuillez d'abord placer", 0)>>
            /\ Returns
            /\ df' = df
       ELSE IF raw.kind = "garbage"
       THEN /\ stdout' = Append(stdout, Msg("Une erreur est survenue", 0))
            /\ Returns
            /\ df' = df
       ELSE /\ df' = ReadCsv(raw.table)
            /\ pc' = "project"
            /\ UNCHANGED <<stdout, status>>
    /\ UNCHANGED <<raw, outDir, outFile, initial_rows, runs, trace, cur, prev>>

\* line 54
ProjectStep ==
    /\ pc = "project"
    /\ IF HasColumns(df)
       THEN /\ df' = Project(df)
            /\ trace' = [trace EXCEPT !.projected = Project(df)]
            /\ pc' = "coerce"
            /\ UNCHANGED status
       ELSE /\ Raises
            /\ UNCHANGED <<df, trace>>
    /\ UNCHANGED <<raw, outDir, outFile, initial_rows, stdout, runs, cur, prev>>

\* lines 61-69, section 3 of clean_data
CoerceStep ==
    /\ pc = "coerce"
    /\ df' = Coerce(df)
    /\ trace' = [trace EXCEPT !.coerced = Coerce(df)]
    /\ pc' = "dropna"
    /\ UNCHANGED <<raw, outDir, outFile, initial_rows, stdout, status, runs, cur, prev>>

\* lines 75-76
DropIncompleteStep ==
    /\ pc = "dropna"
    /\ initial_rows' = Len(df.rows)
    /\ df' = DropIncomplete(df)
    /\ trace' = [trace EXCEPT !.complete = DropIncomplete(df)]
    /\ pc' = "sentinel"
    /\ UNCHANGED <<raw, outDir, outFile, stdout, status, runs, cur, prev>>

\* lines 79-81
DropSentinelStep ==
    /\ pc = "sentinel"
    /\ df' = DropSentinel(df)
    /\ trace' = [trace EXCEPT !.filtered = DropSentinel(df)]
    /\ stdout' = Append(stdout, Msg("Suppression de lignes",
                                    initial_rows - Len(DropSentinel(df).rows)))
    /\ pc' = "finalize"
    /\ UNCHANGED <<raw, outDir, outFile, initial_rows, status, runs, cur, prev>>

\* lines 86-87
FinalizeStep ==
    /\ pc = "finalize"
    /\ IF FinalizeRaises(df)
       THEN /\ Raises
            /\ df' = df
       ELSE /\ df' = FinalizeTypes(df)
            /\ pc' = "write"
            /\ UNCHANGED status
    /\ UNCHANGED <<raw, outDir, outFile, initial_rows, stdout, runs, trace, cur, prev>>

\* mutant: os.makedirs without exist_ok raises when the directory exists
MakeDirsWithoutExistOk(exists) == exists

\* line 92: os.makedirs(..., exist_ok=True)
MakeDirsRaises(exists) == FALSE

\* lines 92-98
WriteStep ==
    /\ pc = "write"
    /\ IF MakeDirsRaises(outDir)
       THEN /\ Raises
            /\ UNCHANGED <<outDir, outFile, stdout, cur>>
       ELSE /\ outDir' = TRUE
            /\ outFile' = [exists |-> TRUE, data |-> ToCsv(df)]
            /\ stdout' = stdout \o <<Msg("Nettoyage termine", 0),
                                     Msg("Total des accidents conserves", Len(df.rows))>>
            /\ cur' = [cur EXCEPT !.wrote = TRUE, !.out = ToCsv(df)]
            /\ Returns
    /\ UNCHANGED <<raw, df, initial_rows, runs, trace, prev>>

\* ------------------------------------------------------------ environment
\* between two runs the output file may be removed, and the raw file may be
\* removed or damaged
DeleteOutput ==
    /\ Quiet
    /\ runs < MaxRuns
    /\ outFile.exists
    /\ outFile' = NoFile
    /\ pc' = "idle"
    /\ UNCHANGED <<raw, outDir, df, initial_rows, stdout, status, runs, trace,
                   cur, prev>>

RemoveRaw ==
    /\ Quiet
    /\ runs < MaxRuns
    /\ raw.kind # "absent"
    /\ raw' = [kind |-> "absent", table |-> NoTable]
    /\ pc' = "idle"
    /\ UNCHANGED <<outDir, outFile, df, initial_rows, stdout, status, runs,
                   trace, cur, prev>>

CorruptRaw ==
    /\ Quiet
    /\ runs < MaxRuns
    /\ raw.kind = "table"
    /\ raw' = [kind |-> "garbage", table |-> NoTable]
    /\ pc' = "idle"
    /\ UNCHANGED <<outDir, outFile, df, initial_rows, stdout, status, runs,
                   trace, cur, prev>>

Next ==
    \/ Start
    \/ Load
    \/ ProjectStep
    \/ CoerceStep
    \/ DropIncompleteStep
    \/ DropSentinelStep
    \/ FinalizeStep
    \/ WriteStep
    \/ DeleteOutput
    \/ RemoveRaw
    \/ CorruptRaw

Spec == Init /\ [][Next]_vars

\* ------------------------------------------------- vocabulary of the claims
CleanedColumns ==
    {"Num_Acc", "date", "lat", "long", "age", "grav", "sexe", "atm", "lum",
     "dep", "hour"}

PreservedColumns == {"Num_Acc", "grav", "sexe", "atm", "lum", "dep"}

\* the table the run was started on, and the output it wrote
Input == cur.input.table

Loaded == cur.input.kind = "table"

Ended == pc = "exited"

Wrote == pc = "exited" /\ cur.wrote

\* both filters have run
Filtered == pc \in {"finalize", "write"} \/ Wrote

IsZeroLit(s) == IsNumLit(s) /\ IsZero(ParseFloat(s))

\* a raw record every field of which is usable
WellFormed(r) ==
    /\ IsIsoDate(r["date"])
    /\ IsNumLit(r["lat"]) /\ ~IsZeroLit(r["lat"])
    /\ IsNumLit(r["long"])
    /\ IsIntLit(r["age"])
    /\ IsHourMinute(r["hrmn"])

\* a raw record with a field the cleaner needs missing or unusable
Unusable(r) ==
    \/ ~IsIsoDate(r["date"])
    \/ ~IsNumLit(r["lat"])
    \/ ~IsNumLit(r["long"])
    \/ r["age"] = <<>>
    \/ ~IsHourMinute(r["hrmn"])

InOutput(r) == \E j \in 1..Len(cur.out.rows) : cur.out.rows[j]["Num_Acc"] = r["Num_Acc"]

KeptAs(r, o) ==
    /\ "hrmn" \notin DOMAIN o
    /\ "hour" \in DOMAIN o
    /\ o["hour"] = NatStr(HourOf(r["hrmn"]))
    /\ \A c \in PreservedColumns : o[c] = r[c]

ErrorReported ==
    \E i \in 1..Len(stdout) :
        stdout[i].msg \in {"ERREUR: Fichier non trouve", "Une erreur est survenue"}

\* C1 (as stated): after a run on a table with the kept columns, every
\* well-formed record of the table is in the written output, with hour the
\* hour of hrmn, without hrmn, and with the preserved columns unchanged,
\* whatever the other records are
C1_WellFormedRowsAreKept ==
    (Ended /\ Loaded /\ HasColumns(Input)) =>
        \A i \in 1..Len(Input.rows) :
            WellFormed(Input.rows[i]) =>
                /\ cur.wrote
                /\ \E j \in 1..Len(cur.out.rows) : KeptAs(Input.rows[i], cur.out.rows[j])

\* C2: no record with a missing or unparseable date, a missing or non-numeric
\* lat or long, a missing age or an hrmn that is not HH:MM is in a written
\* output
C2_UnusableRowsAreDropped ==
    Wrote => \A i \in 1..Len(Input.rows) : Unusable(Input.rows[i]) => ~InOutput(Input.rows[i])

C2_Witness ==
    /\ Wrote
    /\ Len(cur.out.rows) > 0
    /\ \E i \in 1..Len(Input.rows) : Unusable(Input.rows[i])

C4_OutputColumns ==
    /\ Wrote =>
          /\ Len(cur.out.cols) = Cardinality(CleanedColumns)
          /\ Range(cur.out.cols) = CleanedColumns
          /\ \A j \in 1..Len(cur.out.rows) : DOMAIN cur.out.rows[j] = CleanedColumns
    /\ outFile.exists => Range(outFile.data.cols) = CleanedColumns

C4_Witness ==
    /\ Wrote
    /\ "com" \in Range(Input.cols)
    /\ Len(cur.out.rows) > 0

\* C5: output rows + rows with a missing date, lat, long, age or hour + the
\* remaining rows with lat = 0 = rows after projection; the coercions remove
\* no row
MissingCount ==
    Cardinality({i \in 1..Len(trace.coerced.rows) :
                    \E c \in {"date", "lat", "long", "age", "hour"} :
                        IsNa(trace.coerced.rows[i][c])})

ZeroLatCount ==
    Cardinality({i \in 1..Len(trace.complete.rows) :
                    IsZero(trace.complete.rows[i]["lat"])})

C5_RowAccounting ==
    /\ Filtered =>
          /\ Len(trace.coerced.rows) = Len(trace.projected.rows)
          /\ Len(trace.filtered.rows) + MissingCount + ZeroLatCount
                = Len(trace.projected.rows)
    /\ Wrote =>
          /\ Len(cur.out.rows) + MissingCount + ZeroLatCount = Len(Input.rows)
          /\ \E i \in 1..Len(stdout) :
                stdout[i] = Msg("Suppression de lignes", MissingCount + ZeroLatCount)

C5_Witness ==
    /\ Wrote
    /\ MissingCount > 0
    /\ ZeroLatCount > 0

\* C6: a run on the same input as the run before it, that run having written
\* an output and the output having been removed since, writes the same
\* output: the same rows in the same order with the same fields
C6_SecondRunWritesTheSame ==
    (Ended /\ prev.wrote /\ prev.input = cur.input /\ ~cur.file0.exists) =>
        (cur.wrote /\ cur.out = prev.out /\ outFile.data = prev.out)

C6_Witness ==
    /\ Ended /\ prev.wrote /\ prev.input = cur.input /\ ~cur.file0.exists
    /\ cur.wrote
    /\ Len(cur.out.rows) = MaxRows

\* C7: a run whose raw file is missing or unparseable reports it and does
\* nothing more: the output directory and the output file are as they were
C7_FailedLoadWritesNothing ==
    (Ended /\ ~Loaded) =>
        /\ ErrorReported
        /\ ~cur.wrote
        /\ outDir = cur.dir0
        /\ outFile = cur.file0
        /\ df = NoTable

C7_Witness ==
    /\ Ended
    /\ cur.input.kind = "garbage"
    /\ outFile.exists
    /\ Len(outFile.data.rows) > 0

\* C8 (as stated): in a written output every age is a non-negative integer
\* and every hour an integer of 0..23
IsHourLit(s) == AllDigits(s) /\ NatVal(s) \in 0..23

C8_AgeNonNegative ==
    Wrote => \A j \in 1..Len(cur.out.rows) :
                 /\ AllDigits(cur.out.rows[j]["age"])
                 /\ IsHourLit(cur.out.rows[j]["hour"])

\* C8 (amended): in a written output every age is an integer, negative or
\* not, and every hour an integer of 0..23
C8_AgeAndHourAreIntegers ==
    Wrote => \A j \in 1..Len(cur.out.rows) :
                 /\ IsIntLit(cur.out.rows[j]["age"])
                 /\ IsHourLit(cur.out.rows[j]["hour"])

C8_Witness ==
    /\ Wrote
    /\ \E j \in 1..Len(cur.out.rows) : cur.out.rows[j]["age"] = <<"-", "1">>
    /\ \E j \in 1..Len(cur.out.rows) : cur.out.rows[j]["hour"] = <<"7">>

\* C9 (as stated): a run whose raw file is missing or unparseable, or whose
\* table lacks a kept column, ends abnormally
Failing == ~Loaded \/ ~HasColumns(Input)

IsIntegral(c) == c.k \in {"int", "float"} /\ c.fr = <<>>

C10_CastIsSafe ==
    pc = "finalize" =>
        /\ \A i \in 1..Len(df.rows) :
              IsIntegral(df.rows[i]["age"]) /\ IsIntegral(df.rows[i]["hour"])
        /\ ~FinalizeRaises(df)

====
